---- MODULE Spec2Model ----
(***************************************************************************)
(* Model of the code-personality-theme extension (src/src/extension.ts):   *)
(* the PersonalityState engine (edit window, computeMode, canApply,        *)
(* markApplied), the host services it reads (clock, configuration,         *)
(* diagnostics registry, open documents, workbench theme) and the four     *)
(* drivers registered by activate (edit, diagnostics-changed, timer tick,  *)
(* startup), with applyMode suspended at its await of the theme update.    *)
(* Times are milliseconds, as returned by Date.now().                      *)
(***************************************************************************)
EXTENDS Integers, Sequences, FiniteSets, Bags, TLC

VARIABLES
    now,             \* Date.now()
    nextTickAt,      \* the time at which the setInterval callback is due next
    activated,       \* FALSE until the startup block of activate has run
    enabled,         \* codePersonalityThemes.enabled
    cfg,             \* the other codePersonalityThemes options (getConfig)
    textDocuments,   \* vscode.workspace.textDocuments, as a set of uris
    diagnostics,     \* vscode.languages.getDiagnostics(): uri -> number of diagnostics
    colorTheme,      \* workbench.colorTheme
    lastEditAt,      \* PersonalityState.lastEditAt
    editTimestamps,  \* PersonalityState.editTimestamps
    lastAppliedAt,   \* PersonalityState.lastAppliedAt
    lastMode,        \* PersonalityState.lastMode ("none" for null)
    pending,         \* the bag of applyMode calls suspended at `await workbench.update`
    written,         \* the suspended calls whose update has been written, oldest first
    recorded,        \* every timestamp onEdit has recorded, in order (history)
    ev               \* the last step taken and what it decided (history)

vars == <<now, nextTickAt, activated, enabled, cfg, textDocuments, diagnostics,
          colorTheme, lastEditAt, editTimestamps, lastAppliedAt, lastMode,
          pending, written, recorded, ev>>

hostVars == <<enabled, cfg, textDocuments, diagnostics>>
trackerVars == <<lastEditAt, editTimestamps>>
engineVars == <<lastAppliedAt, lastMode>>

----------------------------------------------------------------------------
(* Bounds of the model. *)

\* The clock stops after this many timer periods.
MaxTicks == 2
\* At most this many entries are ever held in the edit window.
MaxWindow == 2
\* At most this many applyMode calls are suspended at once.
MaxInFlight == 2
\* Each uri carries at most this many diagnostics.
MaxDiagPerDoc == 1
\* In the long run of the edit tracker: the clock stops after this many timer
\* periods, and at most this many edits are recorded.
MaxTicksLong == 11
MaxEdits == 3

----------------------------------------------------------------------------
(* Program constants. *)

\* Date.now() when PersonalityState is constructed (an epoch time: far above
\* any cooldown).
T0 == 1000000
\* setInterval(..., 1000)
TickMs == 1000
\* now - 10_000
WindowMs == 10000
\* idleSecondsForCalm * 1000, cooldownSeconds * 1000
MsPerSecond == 1000

Mode == {"calm", "focus", "panic"}
NoMode == "none"

\* The uris of the diagnostics registry; those of OpenUris are open documents.
Uris == {"a.ts", "b.ts"}
OpenUris == {"a.ts"}

\* A theme the user had before the extension ever wrote one.
OtherTheme == "Default Dark+"

\* Option values the user may have set; getConfig reads them on every call.
Configs ==
    [ calmTheme : {"Personality: Calm"},
      focusTheme : {"Personality: Focus"},
      panicTheme : {"Personality: Panic"},
      panicErrorThreshold : {2},
      focusTypingBurstThreshold : {2},
      idleSecondsForCalm : {2},
      cooldownSeconds : {2} ]

InitialThemes == {OtherTheme, "Personality: Focus"}

----------------------------------------------------------------------------
(* Host queries. *)

\* Mutant: the enabled option is never consulted.
getEnabledAlways == TRUE

getEnabled == enabled

getConfig == cfg

RECURSIVE SumDiagnostics(_)
SumDiagnostics(S) ==
    IF S = {} THEN 0
    ELSE LET u == CHOOSE x \in S : TRUE
         IN diagnostics[u] + SumDiagnostics(S \ {u})

\* First loop: the open documents; second loop: every uri of the registry.
countAllDiagnostics ==
    SumDiagnostics(textDocuments) + SumDiagnostics(Uris)

----------------------------------------------------------------------------
(* PersonalityState. *)

RECURSIVE FilterFrom(_, _)
FilterFrom(s, cutoff) ==
    IF s = <<>> THEN <<>>
    ELSE IF Head(s) >= cutoff
         THEN <<Head(s)>> \o FilterFrom(Tail(s), cutoff)
         ELSE FilterFrom(Tail(s), cutoff)

\* Mutant: an entry exactly 10 s old is dropped.
WindowAfterEditStrict ==
    LET cutoff == now - WindowMs
    IN FilterFrom(Append(editTimestamps, now), cutoff + 1)

\* Mutant: the new timestamp is pushed and nothing is pruned.
WindowAfterEditUnpruned == Append(editTimestamps, now)

\* The window after onEdit at time `now`.
WindowAfterEdit ==
    LET cutoff == now - WindowMs
    IN FilterFrom(Append(editTimestamps, now), cutoff)

onEdit ==
    /\ lastEditAt' = now
    /\ editTimestamps' = WindowAfterEdit

\* Mutant: the burst check is made before the panic check.
computeModeBurstFirst ==
    LET totalDiagnostics == countAllDiagnostics
        editsInWindow == Len(editTimestamps)
        idleMs == now - lastEditAt
    IN IF editsInWindow >= getConfig.focusTypingBurstThreshold THEN "focus"
       ELSE IF totalDiagnostics >= getConfig.panicErrorThreshold THEN "panic"
       ELSE IF idleMs >= getConfig.idleSecondsForCalm * MsPerSecond THEN "calm"
       ELSE "focus"

\* Mutant: the idle check is made before the burst check.
computeModeIdleFirst ==
    LET totalDiagnostics == countAllDiagnostics
        editsInWindow == Len(editTimestamps)
        idleMs == now - lastEditAt
    IN IF totalDiagnostics >= getConfig.panicErrorThreshold THEN "panic"
       ELSE IF idleMs >= getConfig.idleSecondsForCalm * MsPerSecond THEN "calm"
       ELSE "focus"

computeMode ==
    LET totalDiagnostics == countAllDiagnostics
        editsInWindow == Len(editTimestamps)
        idleMs == now - lastEditAt
    IN IF totalDiagnostics >= getConfig.panicErrorThreshold THEN "panic"
       ELSE IF editsInWindow >= getConfig.focusTypingBurstThreshold THEN "focus"
       ELSE IF idleMs >= getConfig.idleSecondsForCalm * MsPerSecond THEN "calm"
       ELSE "focus"

\* Mutant: leaving panic is never recognised.
isPanicRecoveryNever(newMode) == FALSE

isPanicRecovery(newMode) ==
    lastMode = "panic" /\ newMode # "panic"

\* Mutant: the cooldown comparison is <= instead of <.
canApplyOffByOne(mode, force) ==
    IF force THEN TRUE
    ELSE IF lastMode = mode THEN FALSE
    ELSE IF lastMode = "panic" /\ mode = "calm" THEN TRUE
    ELSE IF now - lastAppliedAt <= getConfig.cooldownSeconds * MsPerSecond THEN FALSE
    ELSE TRUE

\* Mutant: the check for an unchanged mode is missing.
canApplyNoEquality(mode, force) ==
    IF force THEN TRUE
    ELSE IF lastMode = "panic" /\ mode = "calm" THEN TRUE
    ELSE IF now - lastAppliedAt < getConfig.cooldownSeconds * MsPerSecond THEN FALSE
    ELSE TRUE

\* Mutant: nothing is admitted without force before a first mode is applied.
canApplyNeedsPrior(mode, force) ==
    IF force THEN TRUE
    ELSE IF lastMode = NoMode THEN FALSE
    ELSE IF lastMode = mode THEN FALSE
    ELSE IF lastMode = "panic" /\ mode = "calm" THEN TRUE
    ELSE IF now - lastAppliedAt < getConfig.cooldownSeconds * MsPerSecond THEN FALSE
    ELSE TRUE

\* Mutant: the bypass covers every mode left from panic, not only calm.
canApplyAnyFromPanic(mode, force) ==
    IF force THEN TRUE
    ELSE IF lastMode = mode THEN FALSE
    ELSE IF lastMode = "panic" THEN TRUE
    ELSE IF now - lastAppliedAt < getConfig.cooldownSeconds * MsPerSecond THEN FALSE
    ELSE TRUE

\* Mutant: the elapsed time is taken with the operands exchanged.
canApplyReversedClock(mode, force) ==
    IF force THEN TRUE
    ELSE IF lastMode = mode THEN FALSE
    ELSE IF lastMode = "panic" /\ mode = "calm" THEN TRUE
    ELSE IF lastAppliedAt - now < getConfig.cooldownSeconds * MsPerSecond THEN FALSE
    ELSE TRUE

canApply(mode, force) ==
    IF force THEN TRUE
    ELSE IF lastMode = mode THEN FALSE
    ELSE IF lastMode = "panic" /\ mode = "calm" THEN TRUE
    ELSE IF now - lastAppliedAt < getConfig.cooldownSeconds * MsPerSecond THEN FALSE
    ELSE TRUE

markApplied(mode) ==
    /\ lastAppliedAt' = now
    /\ lastMode' = mode

----------------------------------------------------------------------------
(* applyMode. *)

themeFor(mode) ==
    IF mode = "calm" THEN getConfig.calmTheme
    ELSE IF mode = "panic" THEN getConfig.panicTheme
    ELSE getConfig.focusTheme

\* The frame of a suspended applyMode call: its parameters and its local `theme`.
Call(mode, force) ==
    [mode |-> mode, theme |-> themeFor(mode), force |-> force]

\* Mutant: markApplied runs even when canApply refuses.
applyModeIgnoringGate(mode, force) ==
    IF ~canApply(mode, force)
    THEN /\ markApplied(mode)
         /\ UNCHANGED <<colorTheme, pending>>
    ELSE IF colorTheme # themeFor(mode)
         THEN /\ BagCardinality(pending) + Len(written) < MaxInFlight
              /\ pending' = pending (+) SetToBag({Call(mode, force)})
              /\ UNCHANGED <<engineVars, colorTheme>>
         ELSE /\ markApplied(mode)
              /\ UNCHANGED <<colorTheme, pending>>

\* Mutant: markApplied runs before the update is awaited.
applyModeMarksFirst(mode, force) ==
    IF ~canApply(mode, force)
    THEN UNCHANGED <<engineVars, colorTheme, pending>>
    ELSE IF colorTheme # themeFor(mode)
         THEN /\ BagCardinality(pending) + Len(written) < MaxInFlight
              /\ pending' = pending (+) SetToBag({Call(mode, force)})
              /\ markApplied(mode)
              /\ UNCHANGED colorTheme
         ELSE /\ markApplied(mode)
              /\ UNCHANGED <<colorTheme, pending>>

\* Mutant: the test of the current theme is inverted.
applyModeInvertedTest(mode, force) ==
    IF ~canApply(mode, force)
    THEN UNCHANGED <<engineVars, colorTheme, pending>>
    ELSE IF colorTheme = themeFor(mode)
         THEN /\ BagCardinality(pending) + Len(written) < MaxInFlight
              /\ pending' = pending (+) SetToBag({Call(mode, force)})
              /\ UNCHANGED <<engineVars, colorTheme>>
         ELSE /\ markApplied(mode)
              /\ UNCHANGED <<colorTheme, pending>>

\* The synchronous part of applyMode: up to the await, or to the end when the
\* theme is already the wanted one.
applyMode(mode, force) ==
    IF ~canApply(mode, force)
    THEN UNCHANGED <<engineVars, colorTheme, pending>>
    ELSE IF colorTheme # themeFor(mode)
         THEN /\ BagCardinality(pending) + Len(written) < MaxInFlight
              /\ pending' = pending (+) SetToBag({Call(mode, force)})
              /\ UNCHANGED <<engineVars, colorTheme>>
         ELSE /\ markApplied(mode)
              /\ UNCHANGED <<colorTheme, pending>>


Event(op, mode, force, ok) ==
    [op |-> op, mode |-> mode, force |-> force, ok |-> ok,
     prev |-> lastMode, prevAt |-> lastAppliedAt]

----------------------------------------------------------------------------
(* The state after construction. *)

Init ==
    /\ now = T0
    /\ nextTickAt = T0 + TickMs
    /\ activated = FALSE
    /\ enabled \in BOOLEAN
    /\ cfg \in Configs
    /\ textDocuments = OpenUris
    /\ diagnostics \in [Uris -> 0 .. MaxDiagPerDoc]
    /\ colorTheme \in InitialThemes
    /\ lastEditAt = T0
    /\ editTimestamps = <<>>
    /\ lastAppliedAt = 0
    /\ lastMode = NoMode
    /\ pending = EmptyBag
    /\ written = <<>>
    /\ recorded = <<>>
    /\ ev = [op |-> "init", mode |-> NoMode, force |-> FALSE, ok |-> FALSE,
             prev |-> NoMode, prevAt |-> 0]

----------------------------------------------------------------------------
(* Handlers. *)

\* The startup block at the end of activate.
Startup ==
    /\ ~activated
    /\ activated' = TRUE
    /\ IF ~getEnabled
       THEN /\ ev' = Event("startup", NoMode, FALSE, FALSE)
            /\ UNCHANGED <<engineVars, colorTheme, pending>>
       ELSE LET mode == computeMode
            IN /\ applyMode(mode, TRUE)
               /\ ev' = Event("startup", mode, TRUE, canApply(mode, TRUE))
    /\ UNCHANGED <<now, nextTickAt, hostVars, trackerVars, recorded, written>>

\* onDidChangeTextDocument.
OnDidChangeTextDocument ==
    /\ activated
    /\ IF ~getEnabled
       THEN UNCHANGED <<trackerVars, recorded>>
       ELSE /\ onEdit
            /\ recorded' = Append(recorded, now)
    /\ ev' = Event("edit", NoMode, FALSE, FALSE)
    /\ UNCHANGED <<now, nextTickAt, activated, hostVars, engineVars, colorTheme,
                   pending, written>>

\* Mutant: the handler applies every mode it computes, with force.
OnDidChangeDiagnosticsAlwaysApplies(u, n) ==
    /\ activated
    /\ diagnostics' = [diagnostics EXCEPT ![u] = n]
    /\ UNCHANGED <<now, nextTickAt, activated, enabled, cfg, textDocuments,
                   trackerVars, recorded, written>>
    /\ IF ~getEnabled
       THEN /\ ev' = Event("diag", NoMode, FALSE, FALSE)
            /\ UNCHANGED <<engineVars, colorTheme, pending>>
       ELSE LET mode == computeMode'
            IN /\ applyMode(mode, TRUE)
               /\ ev' = Event("diag", mode, TRUE, canApply(mode, TRUE))

\* The diagnostics of uri u change to n of them and the
\* onDidChangeDiagnostics handler runs.
OnDidChangeDiagnostics(u, n) ==
    /\ activated
    /\ diagnostics' = [diagnostics EXCEPT ![u] = n]
    /\ UNCHANGED <<now, nextTickAt, activated, enabled, cfg, textDocuments,
                   trackerVars, recorded, written>>
    /\ IF ~getEnabled
       THEN /\ ev' = Event("diag", NoMode, FALSE, FALSE)
            /\ UNCHANGED <<engineVars, colorTheme, pending>>
       ELSE LET mode == computeMode'
            IN IF isPanicRecovery(mode)
               THEN /\ applyMode(mode, TRUE)
                    /\ ev' = Event("diag", mode, TRUE, canApply(mode, TRUE))
               ELSE /\ ev' = Event("diag", mode, FALSE, FALSE)
                    /\ UNCHANGED <<engineVars, colorTheme, pending>>

\* Mutant: the tick prunes the window before it computes the mode.
TickPrunes ==
    /\ activated
    /\ now = nextTickAt
    /\ nextTickAt' = now + TickMs
    /\ UNCHANGED <<now, activated, hostVars, lastEditAt, recorded, written>>
    /\ IF ~getEnabled
       THEN /\ ev' = Event("tick", NoMode, FALSE, FALSE)
            /\ UNCHANGED <<engineVars, colorTheme, pending, editTimestamps>>
       ELSE /\ editTimestamps' = FilterFrom(editTimestamps, now - WindowMs)
            /\ LET mode == computeMode'
                   recovery == isPanicRecovery(mode)
               IN /\ applyMode(mode, recovery)
                  /\ ev' = Event("tick", mode, recovery, canApply(mode, recovery))

\* The setInterval callback, due every TickMs.
Tick ==
    /\ activated
    /\ now = nextTickAt
    /\ nextTickAt' = now + TickMs
    /\ IF ~getEnabled
       THEN /\ ev' = Event("tick", NoMode, FALSE, FALSE)
            /\ UNCHANGED <<engineVars, colorTheme, pending>>
       ELSE LET mode == computeMode
                recovery == isPanicRecovery(mode)
            IN /\ applyMode(mode, recovery)
               /\ ev' = Event("tick", mode, recovery, canApply(mode, recovery))
    /\ UNCHANGED <<now, activated, hostVars, trackerVars, recorded, written>>

\* workbench.update succeeded for the suspended call c: the theme is written
\* and the call resumes at markApplied.
UpdateResolved(c) ==
    /\ BagIn(c, pending)
    /\ colorTheme' = c.theme
    /\ markApplied(c.mode)
    /\ pending' = pending (-) SetToBag({c})
    /\ ev' = Event("resolved", c.mode, c.force, TRUE)
    /\ UNCHANGED <<now, nextTickAt, activated, hostVars, trackerVars, recorded, written>>

\* Mutant: the failure is swallowed and markApplied runs all the same.
UpdateRejectedMarks(c) ==
    /\ BagIn(c, pending)
    /\ pending' = pending (-) SetToBag({c})
    /\ markApplied(c.mode)
    /\ ev' = Event("rejected", c.mode, c.force, FALSE)
    /\ UNCHANGED <<now, nextTickAt, activated, hostVars, trackerVars, recorded, written,
                   colorTheme>>

\* workbench.update failed for the suspended call c: the rejection ends
\* applyMode before markApplied.
UpdateRejected(c) ==
    /\ BagIn(c, pending)
    /\ pending' = pending (-) SetToBag({c})
    /\ ev' = Event("rejected", c.mode, c.force, FALSE)
    /\ UNCHANGED <<now, nextTickAt, activated, hostVars, trackerVars, recorded, written,
                   engineVars, colorTheme>>

\* The two halves of a successful update, for a host that makes the written
\* theme visible before it reports the success. First the theme of the
\* suspended call c is written; the call stays suspended.
UpdateWritten(c) ==
    /\ BagIn(c, pending)
    /\ colorTheme' = c.theme
    /\ pending' = pending (-) SetToBag({c})
    /\ written' = Append(written, c)
    /\ ev' = Event("written", c.mode, c.force, TRUE)
    /\ UNCHANGED <<now, nextTickAt, activated, hostVars, trackerVars, recorded,
                   engineVars>>

\* Then the success is reported, in the order of the writes, and the call
\* resumes at markApplied.
UpdateResumed ==
    /\ written # <<>>
    /\ markApplied(Head(written).mode)
    /\ written' = Tail(written)
    /\ ev' = Event("resolved", Head(written).mode, Head(written).force, TRUE)
    /\ UNCHANGED <<now, nextTickAt, activated, hostVars, trackerVars, recorded,
                   colorTheme, pending>>

----------------------------------------------------------------------------
(* The environment. *)

\* Time passes until the timer is due.
Advance ==
    /\ activated
    /\ now < nextTickAt
    /\ now' = nextTickAt
    /\ ev' = Event("advance", NoMode, FALSE, FALSE)
    /\ UNCHANGED <<nextTickAt, activated, hostVars, trackerVars, recorded, written,
                   engineVars, colorTheme, pending>>

\* The user flips codePersonalityThemes.enabled.
SetEnabled ==
    /\ activated
    /\ enabled' = ~enabled
    /\ ev' = Event("enabled", NoMode, FALSE, FALSE)
    /\ UNCHANGED <<now, nextTickAt, activated, cfg, textDocuments, diagnostics,
                   trackerVars, recorded, written, engineVars, colorTheme, pending>>

----------------------------------------------------------------------------
(* Specifications. *)

\* The bounds on the clock and on the edit window.
ClockRoom == nextTickAt <= T0 + MaxTicks * TickMs
WindowRoom == Len(WindowAfterEdit) <= MaxWindow

\* The extension with the options as they were at activation.
Next ==
    \/ Startup
    \/ WindowRoom /\ OnDidChangeTextDocument
    \/ \E u \in Uris, n \in 0 .. MaxDiagPerDoc : OnDidChangeDiagnostics(u, n)
    \/ Tick
    \/ \E c \in BagToSet(pending) : UpdateResolved(c)
    \/ \E c \in BagToSet(pending) : UpdateRejected(c)
    \/ ClockRoom /\ Advance

Spec == Init /\ [][Next]_vars

\* The same, with the user switching the extension off and on while it runs.
NextToggle ==
    \/ Next
    \/ SetEnabled

SpecToggle == Init /\ [][NextToggle]_vars

\* A long run of the enabled extension in a workspace without diagnostics:
\* the clock passes the 10 s window, with few edits.
LongClockRoom == nextTickAt <= T0 + MaxTicksLong * TickMs
EditBudget == Len(recorded) < MaxEdits

InitTracker ==
    /\ Init
    /\ enabled
    /\ \A u \in Uris : diagnostics[u] = 0

NextTracker ==
    \/ Startup
    \/ EditBudget /\ OnDidChangeTextDocument
    \/ Tick
    \/ \E c \in BagToSet(pending) : UpdateResolved(c)
    \/ LongClockRoom /\ Advance

SpecTracker == InitTracker /\ [][NextTracker]_vars

\* The extension on a host where other handlers may run between the write of
\* an update and the report of its success; no edit is made.
NextStaged ==
    \/ Startup
    \/ \E u \in Uris, n \in 0 .. MaxDiagPerDoc : OnDidChangeDiagnostics(u, n)
    \/ Tick
    \/ \E c \in BagToSet(pending) : UpdateWritten(c)
    \/ UpdateResumed
    \/ \E c \in BagToSet(pending) : UpdateRejected(c)
    \/ ClockRoom /\ Advance

SpecStaged == Init /\ [][NextStaged]_vars

\* An unending run of the enabled extension in which every theme update
\* succeeds. The code reads the clock only through the differences
\* now - lastEditAt and now - lastAppliedAt, and compares them with thresholds
\* no longer than Horizon - Floor; so from the horizon on, the passing of one
\* timer period is recorded by making the stored times one period older, down
\* to the floor, instead of making `now` one period later. Edits are made
\* during the first timer period only.
Horizon == T0 + MaxTicks * TickMs
Floor == T0

ReAge(t) == IF t > Floor THEN t - TickMs ELSE t

AdvanceSteady ==
    /\ activated
    /\ now < nextTickAt
    /\ now = Horizon
    /\ nextTickAt' = now
    /\ lastEditAt' = ReAge(lastEditAt)
    /\ editTimestamps' = [i \in 1 .. Len(editTimestamps) |-> ReAge(editTimestamps[i])]
    /\ lastAppliedAt' = ReAge(lastAppliedAt)
    /\ ev' = Event("advance", NoMode, FALSE, FALSE)
    /\ UNCHANGED <<now, activated, hostVars, recorded, written, lastMode, colorTheme, pending>>

TimePasses ==
    \/ ClockRoom /\ Advance
    \/ AdvanceSteady

\* Every frame a suspended call can have, under any of the configurations.
AllCalls ==
    [ mode : Mode,
      theme : {c.calmTheme : c \in Configs} \cup {c.focusTheme : c \in Configs}
                \cup {c.panicTheme : c \in Configs},
      force : BOOLEAN ]

InitLive ==
    /\ Init
    /\ enabled

NextLive ==
    \/ Startup
    \/ WindowRoom /\ now < T0 + TickMs /\ OnDidChangeTextDocument
    \/ \E u \in Uris, n \in 0 .. MaxDiagPerDoc : OnDidChangeDiagnostics(u, n)
    \/ Tick
    \/ \E c \in BagToSet(pending) : UpdateResolved(c)
    \/ TimePasses

\* The startup block runs, the clock advances, the timer fires when due, and
\* every update that is awaited completes.
FairLive ==
    /\ WF_vars(Startup)
    /\ WF_vars(TimePasses)
    /\ WF_vars(Tick)
    /\ \A c \in AllCalls : WF_vars(UpdateResolved(c))

SpecLive == InitLive /\ [][NextLive]_vars /\ FairLive

----------------------------------------------------------------------------
(* Properties. *)

Deciders == {"startup", "tick", "diag"}

\* The last step was a handler that computed a mode.
Decided == ev.op \in Deciders /\ ev.mode \in Mode

PanicThresholdReached == countAllDiagnostics >= getConfig.panicErrorThreshold
BurstReached == Len(editTimestamps) >= getConfig.focusTypingBurstThreshold
IdleReached == now - lastEditAt >= getConfig.idleSecondsForCalm * MsPerSecond
CooldownMs == getConfig.cooldownSeconds * MsPerSecond

\* C1: whenever the diagnostics total that computeMode reads is at or above
\* panicErrorThreshold, computeMode returns panic, whatever the edit window
\* holds and however long the idle time is; and every handler that computed a
\* mode in such a state computed panic.
PanicWins ==
    PanicThresholdReached =>
        /\ computeMode = "panic"
        /\ Decided => ev.mode = "panic"

\* C1 witness: a tick computed panic although the window holds a burst and
\* the idle time has reached the calm threshold.
PanicWinsWitness ==
    /\ ev.op = "tick"
    /\ ev.mode = "panic"
    /\ PanicThresholdReached
    /\ BurstReached
    /\ IdleReached

\* What the claim C2 says computeMode returns below the panic threshold.
BelowPanicMode ==
    IF BurstReached THEN "focus"
    ELSE IF IdleReached THEN "calm"
    ELSE "focus"

\* C2: below the panic threshold computeMode returns focus when the window
\* holds a burst, even if the idle time has reached the calm threshold;
\* otherwise calm exactly when the idle time has reached it, focus if not.
BurstBeforeIdle ==
    ~PanicThresholdReached =>
        /\ computeMode = BelowPanicMode
        /\ Decided => ev.mode = BelowPanicMode

\* C2 witness: a tick computed focus with a burst in the window and the idle
\* time at or above the calm threshold.
BurstBeforeIdleWitness ==
    /\ ev.op = "tick"
    /\ ev.mode = "focus"
    /\ ~PanicThresholdReached
    /\ BurstReached
    /\ IdleReached

\* C3: a tick or a diagnostics-changed handler that finds lastMode = panic and
\* computes another mode applies it with force: canApply passes, and the mode
\* is marked at once or its theme update is issued; and every update that
\* succeeds leaves lastMode equal to the mode of its call, applied now.
PanicRecoveryForces ==
    /\ (ev.op \in {"tick", "diag"} /\ ev.prev = "panic"
            /\ ev.mode \in Mode \ {"panic"}) =>
        /\ ev.force
        /\ ev.ok
        /\ IF colorTheme = themeFor(ev.mode)
           THEN lastMode = ev.mode /\ lastAppliedAt = now
           ELSE lastMode = "panic" /\ BagIn(Call(ev.mode, TRUE), pending)
    /\ ev.op = "resolved" =>
        /\ lastMode = ev.mode
        /\ lastAppliedAt = now
        /\ colorTheme = themeFor(ev.mode)

\* C3 witness: diagnostics dropped while panic had been applied less than a
\* cooldown ago, and the handler issued the forced apply of focus.
PanicRecoveryWitness ==
    /\ ev.op = "diag"
    /\ ev.prev = "panic"
    /\ ev.mode = "focus"
    /\ ev.force
    /\ now - lastAppliedAt < CooldownMs
    /\ BagIn(Call("focus", TRUE), pending)

\* C4: for a non-forced request of a mode other than lastMode that is not
\* panic -> calm, canApply is true exactly when the cooldown has elapsed since
\* lastAppliedAt; and every tick that made such a request was answered so.
CooldownGate ==
    /\ \A m \in Mode :
        (m # lastMode /\ ~(lastMode = "panic" /\ m = "calm")) =>
            (canApply(m, FALSE) <=> now - lastAppliedAt >= CooldownMs)
    /\ (ev.op = "tick" /\ ev.mode \in Mode /\ ~ev.force /\ ev.mode # ev.prev
            /\ ~(ev.prev = "panic" /\ ev.mode = "calm")) =>
        (ev.ok <=> now - ev.prevAt >= CooldownMs)

\* C4 witness: a tick asked for a change of an applied mode inside the
\* cooldown and was refused.
CooldownGateWitness ==
    /\ ev.op = "tick"
    /\ ev.prev \in Mode
    /\ ev.mode \in Mode \ {ev.prev}
    /\ ~ev.force
    /\ ~ev.ok
    /\ now - lastAppliedAt < CooldownMs
    /\ now - lastAppliedAt > 0

\* C5: a non-forced canApply of the mode that is lastMode is false at every
\* time, and a tick that computes lastMode is refused and leaves lastMode,
\* lastAppliedAt, the theme and the suspended calls as they were.
IdempotentGate ==
    /\ [](lastMode \in Mode => ~canApply(lastMode, FALSE))
    /\ [][(ev'.op = "tick" /\ ev'.mode = lastMode) =>
            /\ ~ev'.ok
            /\ UNCHANGED <<lastMode, lastAppliedAt, colorTheme, pending>>]_vars

\* C5 witness: a tick computed the applied mode after the cooldown had
\* elapsed and was refused.
IdempotentGateWitness ==
    /\ ev.op = "tick"
    /\ lastMode \in Mode
    /\ ev.mode = lastMode
    /\ ~ev.ok
    /\ now - lastAppliedAt >= CooldownMs
    /\ CooldownMs > 0

\* The recorded edit timestamps that lie in [t - 10 s, t], in the order recorded.
RecordedWithin(t) ==
    LET Keep(x) == t - WindowMs <= x /\ x <= t
    IN SelectSeq(recorded, Keep)

\* C6: once an edit has been recorded, at the time of the latest edit the
\* window holds exactly the recorded timestamps within the 10 s before it, in
\* order, and lastEditAt is that time; the window and lastEditAt change in no
\* other step.
WindowCorrect ==
    /\ [](recorded # <<>> =>
            /\ lastEditAt = recorded[Len(recorded)]
            /\ editTimestamps = RecordedWithin(lastEditAt))
    /\ [][ev'.op = "edit" => lastEditAt' = now /\ recorded' = Append(recorded, now)]_vars
    /\ [][ev'.op # "edit" => UNCHANGED <<lastEditAt, editTimestamps, recorded>>]_vars

\* C6 witness: an edit was recorded that dropped the entry older than 10 s
\* and kept the entry exactly 10 s old.
WindowCorrectWitness ==
    /\ ev.op = "edit"
    /\ lastEditAt = now
    /\ Len(editTimestamps) < Len(recorded)
    /\ Len(editTimestamps) >= 2
    /\ editTimestamps[1] = now - WindowMs

\* C7: when the theme update of a suspended applyMode call fails, the call
\* ends without markApplied: lastMode, lastAppliedAt and the theme are what
\* they were, and only the call is gone.
FailedApplyKeepsState ==
    [][ev'.op = "rejected" =>
        /\ UNCHANGED <<lastMode, lastAppliedAt, colorTheme>>
        /\ BagCardinality(pending') = BagCardinality(pending) - 1]_vars

\* C7 witness: an update failed, the mode it was for is still the computed
\* one and is not applied, and canApply admits it again.
FailedApplyWitness ==
    /\ ev.op = "rejected"
    /\ lastMode = ev.prev
    /\ lastMode # ev.mode
    /\ colorTheme # themeFor(ev.mode)
    /\ pending = EmptyBag
    /\ computeMode = ev.mode
    /\ canApply(ev.mode, isPanicRecovery(ev.mode))

\* C8: a tick whose mode canApply refuses changes neither lastMode nor
\* lastAppliedAt nor the theme, and issues no update.
RefusedTickChangesNothing ==
    [][(ev'.op = "tick" /\ ev'.mode \in Mode /\ ~ev'.ok) =>
        UNCHANGED <<lastMode, lastAppliedAt, colorTheme, pending>>]_vars

\* C8 witness: a tick computed a mode other than lastMode, was refused inside
\* the cooldown, and the theme is still that of lastMode.
RefusedTickWitness ==
    /\ ev.op = "tick"
    /\ ~ev.ok
    /\ ev.mode \in Mode
    /\ lastMode \in Mode \ {ev.mode}
    /\ lastMode = ev.prev
    /\ lastAppliedAt = ev.prevAt
    /\ colorTheme = themeFor(lastMode)

\* C9: while enabled is false an edit notification leaves the window and
\* lastEditAt alone, and a tick, a diagnostics-changed notification and the
\* startup block compute no mode and leave lastMode, lastAppliedAt, the theme
\* and the suspended calls alone.
DisabledSuppresses ==
    [][~enabled =>
        /\ ev'.op = "edit" => UNCHANGED <<lastEditAt, editTimestamps>>
        /\ ev'.op \in Deciders =>
            /\ ev'.mode = NoMode
            /\ UNCHANGED <<lastMode, lastAppliedAt, colorTheme, pending>>]_vars

\* C9 witness: a tick ran while disabled in a state where it would otherwise
\* have applied a new mode.
DisabledSuppressesWitness ==
    /\ ~enabled
    /\ ev.op = "tick"
    /\ ev.mode = NoMode
    /\ lastMode \in Mode
    /\ computeMode # lastMode
    /\ canApply(computeMode, isPanicRecovery(computeMode))
    /\ colorTheme # themeFor(computeMode)

\* The documents the host knows: the open ones and those of the registry.
KnownUris == textDocuments \cup Uris

\* C10 (as claimed): the total that decides panic is the sum over the known
\* documents of their diagnostics, each diagnostic counted once.
DiagnosticsCountedOnce ==
    Decided =>
        /\ countAllDiagnostics = SumDiagnostics(KnownUris)
        /\ ev.mode = "panic" <=>
                SumDiagnostics(KnownUris) >= getConfig.panicErrorThreshold

\* C11 (as claimed): the decision/apply sequences run one at a time. A call
\* suspended at its update has passed canApply and not yet called markApplied,
\* so at most one call is ever suspended, and after a handler has passed
\* canApply the only call that can be suspended is the one it has just issued.
OneAtATime ==
    /\ BagCardinality(pending) <= 1
    /\ (Decided /\ ev.ok /\ pending # EmptyBag) =>
        /\ colorTheme # themeFor(ev.mode)
        /\ BagIn(Call(ev.mode, ev.force), pending)

\* C12 (as claimed): lastMode and lastAppliedAt change only in the step in
\* which a theme update that was issued reports success.
MarkedOnlyAfterUpdate ==
    (lastMode # ev.prev \/ lastAppliedAt # ev.prevAt) => ev.op = "resolved"

\* C12 (amended): lastMode and lastAppliedAt change only in the step in which
\* the update that the call issued reports success, or in a handler that
\* passed canApply and found the theme of the mode already active, which
\* issues no update and marks at once; never when an update fails, and never
\* while the call's own update is still awaited.
MarkedAfterUpdateOrSkip ==
    [][(lastMode' # lastMode \/ lastAppliedAt' # lastAppliedAt) =>
        /\ lastMode' = ev'.mode
        /\ lastAppliedAt' = now'
        /\ ev'.ok
        /\ \/ /\ ev'.op = "resolved"
              /\ BagIn(Call(ev'.mode, ev'.force), pending)
           \/ /\ ev'.op \in Deciders
              /\ canApply(ev'.mode, ev'.force)
              /\ colorTheme = themeFor(ev'.mode)
              /\ UNCHANGED <<colorTheme, pending>>]_vars

\* C12 witness: a tick passed canApply for a mode whose theme was already
\* active and marked it without any update.
MarkedWithoutUpdateWitness ==
    /\ ev.op = "tick"
    /\ ev.ok
    /\ lastMode = ev.mode
    /\ lastMode # ev.prev
    /\ lastAppliedAt = now
    /\ colorTheme = themeFor(lastMode)

Chronological(s) == \A i, j \in 1 .. Len(s) : i <= j => s[i] <= s[j]

\* C14 (as claimed): whenever a handler has computed a mode at time now, every
\* stored timestamp is at most 10 s old, and the timestamps are in order.
WindowFreshAtRead ==
    Decided =>
        /\ \A i \in 1 .. Len(editTimestamps) : editTimestamps[i] >= now - WindowMs
        /\ Chronological(editTimestamps)

\* C14 (amended): at every moment every stored timestamp is at most 10 s older
\* than the latest edit (lastEditAt) and not later than it, and the timestamps
\* are in chronological order; between edits they may be more than 10 s older
\* than now.
WindowFreshAtEdit ==
    /\ \A i \in 1 .. Len(editTimestamps) :
        /\ editTimestamps[i] >= lastEditAt - WindowMs
        /\ editTimestamps[i] <= lastEditAt
    /\ Chronological(editTimestamps)
    /\ lastEditAt <= now

\* C14 witness: a tick computed a mode while the window still held an entry
\* more than 10 s old, beside a later one.
StaleWindowReadWitness ==
    /\ ev.op = "tick"
    /\ ev.mode \in Mode
    /\ Len(editTimestamps) >= 2
    /\ editTimestamps[1] < now - WindowMs
    /\ editTimestamps[1] < editTimestamps[2]

\* C15: with lastMode = panic, a non-forced canApply of calm is true whatever
\* the time since lastAppliedAt, while a non-forced canApply of focus is true
\* exactly when the cooldown has elapsed.
PanicCalmBypass ==
    lastMode = "panic" =>
        /\ canApply("calm", FALSE)
        /\ canApply("focus", FALSE) <=> now - lastAppliedAt >= CooldownMs

\* C15 witness: panic was applied less than a cooldown ago; calm is admitted
\* without force and focus is not.
PanicCalmBypassWitness ==
    /\ lastMode = "panic"
    /\ ev.op = "tick"
    /\ now - lastAppliedAt > 0
    /\ now - lastAppliedAt < CooldownMs
    /\ canApply("calm", FALSE)
    /\ ~canApply("focus", FALSE)

\* C16: no step but an edit changes the window, so a tick removes nothing;
\* while the window holds a burst and the diagnostics are below the panic
\* threshold, computeMode is focus and every handler that computes a mode
\* computes focus, never calm, however old the entries and however long the
\* idle time; and the next edit leaves no entry more than 10 s old.
LazyPruning ==
    /\ [][ev'.op # "edit" => UNCHANGED editTimestamps]_vars
    /\ []((BurstReached /\ ~PanicThresholdReached) =>
            /\ computeMode = "focus"
            /\ Decided => ev.mode = "focus")
    /\ [][ev'.op = "edit" =>
            /\ Len(editTimestamps') >= 1
            /\ \A i \in 1 .. Len(editTimestamps') :
                    editTimestamps'[i] >= now' - WindowMs]_vars

\* C16 witness: a tick computed focus from a burst whose every entry is more
\* than 10 s old, with the idle time past the calm threshold.
LazyPruningWitness ==
    /\ ev.op = "tick"
    /\ ev.mode = "focus"
    /\ BurstReached
    /\ IdleReached
    /\ \A i \in 1 .. Len(editTimestamps) : editTimestamps[i] < now - WindowMs

CooldownBetweenApplies ==
    (lastMode # ev.prev /\ ~ev.force
            /\ ~(ev.prev = "panic" /\ lastMode = "calm")) =>
        lastAppliedAt - ev.prevAt >= CooldownMs

\* C19: a diagnostics-changed handler that finds lastMode other than panic, or
\* computes panic, changes neither lastMode nor lastAppliedAt nor the theme and
\* issues no update. So when the handler computes panic for the first time
\* nothing is applied; a tick that computes panic while lastMode is not panic
\* asks without force, and is admitted exactly when the cooldown has elapsed.
DiagnosticsOnlyRecover ==
    /\ [][(ev'.op = "diag" /\ (lastMode # "panic" \/ ev'.mode = "panic")) =>
            /\ ~ev'.ok
            /\ UNCHANGED <<lastMode, lastAppliedAt, colorTheme, pending>>]_vars
    /\ []((ev.op = "tick" /\ ev.mode = "panic" /\ ev.prev # "panic") =>
            /\ ~ev.force
            /\ ev.ok <=> now - ev.prevAt >= CooldownMs)

\* C19 witness: the diagnostics rose to the panic threshold while focus or
\* calm was applied and the cooldown had elapsed; the handler computed panic
\* and applied nothing.
DiagnosticsOnlyRecoverWitness ==
    /\ ev.op = "diag"
    /\ ev.mode = "panic"
    /\ lastMode \in {"calm", "focus"}
    /\ now - lastAppliedAt >= CooldownMs
    /\ PanicThresholdReached
    /\ colorTheme = themeFor(lastMode)
    /\ pending = EmptyBag

====
